---- MODULE Spec2Model ----
(***************************************************************************)
(* A model of crates/language/src/syntax_map.rs: the syntax layer index    *)
(* (SyntaxMap / SyntaxSnapshot), interpolate, reparse and the range query. *)
(*                                                                         *)
(* Collaborators are modelled as follows.                                  *)
(*  - The text buffer is a sequence of atoms (one per byte), each visible  *)
(*    or a tombstone.  An Anchor is a gap of that sequence plus a bias, so *)
(*    anchors keep their identity across edits and undo.  The buffer holds *)
(*    a single line, so a Point is (0, byte) and only bytes are kept.      *)
(*  - The grammar is a toy Rust: every byte is a token, parentheses nest,  *)
(*    and "!" directly followed by a matched "(" is a macro invocation     *)
(*    whose token tree "(" .. ")" is the injection content ("rust").       *)
(*    Macro invocations inside another macro's token tree are plain tokens *)
(*    of that tree (as in tree-sitter-rust).                               *)
(*  - A Tree is the sequence of token labels it was parsed to, in          *)
(*    tree-local bytes.  Tree::edit replaces the edited bytes by dirty     *)
(*    cells and marks the two tokens touching the edit; parse_with reuses  *)
(*    every clean cell of the previous tree without looking at the text    *)
(*    and lexes the rest; changed_ranges reports the dirty cells and the   *)
(*    cells whose label differs.                                           *)
(*  - The SumTree holds at most 2 * TREE_BASE items per leaf; a cursor     *)
(*    seek within one leaf is a linear scan over the items.                *)
(***************************************************************************)
EXTENDS Integers, Sequences, FiniteSets, TLC

\* ------------------------------------------------------------------ bounds

\* Atoms (visible bytes and tombstones) a buffer may ever hold.
MaxAtoms == 6

\* Buffer edits (undo included) in one behaviour.
MaxEdits == 2

\* Bytes a queried range may span.
MaxQueryLen == 2

\* Steps one reparse may pop when the language is an input.
MaxSteps == 5

Chars == {"x", "!", "(", ")"}

\* Buffer::new(0, 0, text): the texts a buffer starts with.
InitTexts ==
    { <<>>,
      <<"!", "(", "x", ")">>,
      <<"!", "(", "!", "(", ")", ")">>,
      <<"!", "(", ")", "!", "(", ")">> }

\* ----------------------------------------------------------------- helpers

Min(a, b) == IF a < b THEN a ELSE b

Max(a, b) == IF a > b THEN a ELSE b

\* Ord::cmp on integers: -1 Less, 0 Equal, 1 Greater.
Cmp(a, b) == IF a < b THEN -1 ELSE IF a > b THEN 1 ELSE 0

\* Ordering::then_with
Then(c1, c2) == IF c1 # 0 THEN c1 ELSE c2

InsertAt(seq, g, new) == SubSeq(seq, 1, g) \o new \o SubSeq(seq, g + 1, Len(seq))

\* ------------------------------------------------------------------ buffer

VARIABLES
    atoms,      \* the buffer: atoms [ch, vis, old]; old = visible at SyntaxMap.version
    undoable,   \* the last transaction: [ins, del] sets of atom indices
    nedits,     \* edits made so far
    registry,   \* SyntaxMap.language_registry is Some
    layers,     \* SyntaxMap.snapshot.layers, in index order
    pc,         \* "idle", or the position inside interpolate / reparse
    cursor,     \* the cursor over the old layers: index of cursor.item()
    out,        \* the new SumTree being built
    changed_regions,
    queue,      \* the BinaryHeap of ReparseSteps, in pop order
    depth,      \* interpolate: the depth of the for loop
    edits,      \* interpolate: the slice of edits still pending at this depth
    applied,    \* per layer of out: the edits interpolate applied to its tree
    parses,     \* parse_text calls of the current / last reparse
    popped,     \* the steps popped by the current / last reparse
    result,     \* what the last layers_for_range call returned
    phase,      \* where the caller is in "edit; interpolate; reparse" ("off": left it)
    prior,      \* what the current / last reparse started from: "fresh" (an empty
                \* index), "reparse" (a reparse, nothing in between), "edits"
    snap        \* a SyntaxSnapshot a caller holds, with the BufferSnapshot it was
                \* taken for: <<>> or <<[layers, atoms]>>

bufvars == <<atoms, undoable, nedits>>

procvars == <<pc, cursor, out, changed_regions, queue, depth, edits>>

vars == <<atoms, undoable, nedits, registry, layers, pc, cursor, out, changed_regions,
          queue, depth, edits, applied, parses, popped, result, phase, prior, snap>>

AnchorMin == [g |-> 0, b |-> "L"]

\* Anchor::MAX: after every fragment of every buffer.
AnchorMax == [g |-> 0, b |-> "Max"]

BiasRank(b) == IF b = "L" THEN 0 ELSE 1

\* Anchor::cmp(&other, buffer): position in the fragment sequence, then bias.
CmpAnchor(a, b) ==
    IF a = AnchorMax \/ b = AnchorMax
    THEN Cmp(IF a = AnchorMax THEN 1 ELSE 0, IF b = AnchorMax THEN 1 ELSE 0)
    ELSE Then(Cmp(a.g, b.g), Cmp(BiasRank(a.b), BiasRank(b.b)))

\* Indices of the visible atoms, in order.
VisIdx(at) == SelectSeq([i \in 1..Len(at) |-> i], LAMBDA i : at[i].vis)

\* BufferSnapshot::as_rope
Text(at) == LET v == VisIdx(at) IN [k \in 1..Len(v) |-> at[v[k]].ch]

BufLen(at) == Len(VisIdx(at))

\* ToOffset for Anchor: the visible bytes before the anchor's gap.
to_offset(at, a) ==
    IF a = AnchorMax THEN BufLen(at)
    ELSE Cardinality({i \in 1..a.g : at[i].vis})

\* BufferSnapshot::anchor_before: left-biased, attached to the byte before.
anchor_before(at, o) ==
    IF o = 0 THEN AnchorMin ELSE [g |-> VisIdx(at)[o], b |-> "L"]

\* BufferSnapshot::anchor_after: right-biased, attached to the byte after.
anchor_after(at, o) ==
    IF o >= BufLen(at) THEN AnchorMax ELSE [g |-> VisIdx(at)[o + 1] - 1, b |-> "R"]

RangeToOffset(at, r) == [start |-> to_offset(at, r.start), end |-> to_offset(at, r.end)]

\* An anchor after n atoms were inserted at gap g of the fragment sequence.
ShiftAnchor(a, g, n) ==
    IF a = AnchorMax \/ a.g < g \/ (a.g = g /\ a.b = "L") THEN a
    ELSE [a EXCEPT !.g = @ + n]

ShiftRange(r, g, n) == [start |-> ShiftAnchor(r.start, g, n), end |-> ShiftAnchor(r.end, g, n)]

\* BufferSnapshot::edits_since(version): one edit per run of atoms whose
\* visibility changed, with the old range in old and the new range in new bytes.
RECURSIVE EditsScan(_, _, _, _, _, _)
EditsScan(at, i, oldOff, newOff, pending, acc) ==
    IF i > Len(at) THEN acc \o pending
    ELSE IF at[i].vis = at[i].old
    THEN IF at[i].vis
         THEN EditsScan(at, i + 1, oldOff + 1, newOff + 1, <<>>, acc \o pending)
         ELSE EditsScan(at, i + 1, oldOff, newOff, pending, acc)
    ELSE LET p == IF pending = <<>>
                  THEN [old |-> [start |-> oldOff, end |-> oldOff],
                        new |-> [start |-> newOff, end |-> newOff]]
                  ELSE pending[1]
         IN IF at[i].old
            THEN EditsScan(at, i + 1, oldOff + 1, newOff,
                           <<[p EXCEPT !.old.end = @ + 1]>>, acc)
            ELSE EditsScan(at, i + 1, oldOff, newOff + 1,
                           <<[p EXCEPT !.new.end = @ + 1]>>, acc)

edits_since(at) == EditsScan(at, 1, 0, 0, <<>>, <<>>)

\* self.version = text.version.clone()
ObserveVersion(at) == [i \in 1..Len(at) |-> [at[i] EXCEPT !.old = at[i].vis]]

\* ------------------------------------------------------------------ parser

\* The matching parenthesis of every byte (0: none), by the usual stack scan.
RECURSIVE MatchScan(_, _, _, _)
MatchScan(cs, i, stack, m) ==
    IF i > Len(cs) THEN m
    ELSE IF cs[i] = "(" THEN MatchScan(cs, i + 1, <<i>> \o stack, m)
    ELSE IF cs[i] = ")" /\ stack # <<>>
    THEN MatchScan(cs, i + 1, Tail(stack), [m EXCEPT ![i] = stack[1], ![stack[1]] = i])
    ELSE MatchScan(cs, i + 1, stack, m)

Match(cs) == MatchScan(cs, 1, <<>>, [i \in 1..Len(cs) |-> 0])

\* (macro_invocation (token_tree)): "!" directly followed by a matched "(".
IsBang(cs, m, i) == cs[i] = "!" /\ i < Len(cs) /\ cs[i + 1] = "(" /\ m[i + 1] # 0

\* Byte j lies in the token tree of a macro invocation.
InContent(cs, m, j) ==
    \E i \in 1..Len(cs) : IsBang(cs, m, i) /\ i + 1 <= j /\ j <= m[i + 1]

\* The syntax tree of a token sequence: one label per byte.
Labels(cs) ==
    LET m == Match(cs)
    IN [j \in 1..Len(cs) |->
          [ch |-> cs[j], m |-> m[j] # 0, c |-> InContent(cs, m, j), b |-> IsBang(cs, m, j)]]

\* A cell of a tree covered by an edit (has_changes, no token known).
Dirty == [ch |-> "?", m |-> FALSE, c |-> FALSE, b |-> FALSE]

TreeChars(tree) == [j \in 1..Len(tree.cells) |-> tree.cells[j].ch]

\* tree_sitter::Tree::edit(&InputEdit)
tree_edit(tree, e) ==
    LET n == Len(tree.cells)
        s == Min(e.start_byte, n)
        oe == Min(Max(e.old_end_byte, s), n)
        mid == [k \in 1..(e.new_end_byte - e.start_byte) |-> Dirty]
        pre == [j \in 1..s |-> IF j = s THEN Dirty ELSE tree.cells[j]]
        post == [j \in 1..(n - oe) |-> IF j = 1 THEN Dirty ELSE tree.cells[oe + j]]
    IN [cells |-> pre \o mid \o post]

\* Parser::parse_with(text, old_tree) over the included bytes local.
parse_with(local, old_tree) ==
    LET cs == [j \in 1..Len(local) |->
                 IF old_tree # <<>> /\ j <= Len(old_tree[1].cells)
                    /\ old_tree[1].cells[j].ch # "?"
                 THEN old_tree[1].cells[j].ch
                 ELSE local[j]]
    IN [cells |-> Labels(cs)]

\* Maximal runs of the positions of 1..n that are in set S, as byte ranges.
RECURSIVE Runs(_, _, _, _)
Runs(S, n, j, acc) ==
    IF j > n THEN acc
    ELSE IF j \notin S THEN Runs(S, n, j + 1, acc)
    ELSE IF acc # <<>> /\ acc[Len(acc)].end = j - 1
    THEN Runs(S, n, j + 1, [acc EXCEPT ![Len(acc)].end = j])
    ELSE Runs(S, n, j + 1, Append(acc, [start |-> j - 1, end |-> j]))

\* Tree::changed_ranges(&new_tree)
changed_ranges(old, new) ==
    LET n == Len(new.cells)
        S == {j \in 1..n : j > Len(old.cells) \/ old.cells[j] # new.cells[j]}
    IN Runs(S, n, 1, <<>>)

\* ------------------------------------------------------------------- edits

NewAtoms(txt) == [k \in 1..Len(txt) |-> [ch |-> txt[k], vis |-> TRUE, old |-> FALSE]]

ShiftLayers(ls, g, n) == [i \in 1..Len(ls) |-> [ls[i] EXCEPT !.range = ShiftRange(@, g, n)]]

\* Buffer::edit([(s..e, txt)]): the new text goes after the tombstones at s and
\* before the bytes this edit deletes.
buffer_edit(s, e, txt) ==
    /\ pc = "idle"
    /\ nedits < MaxEdits
    /\ LET v == VisIdx(atoms)
           g == IF s < Len(v) THEN v[s + 1] - 1 ELSE Len(atoms)
           n == Len(txt)
           D == {v[k] : k \in (s + 1)..e}
           cut == [i \in 1..Len(atoms) |->
                     IF i \in D THEN [atoms[i] EXCEPT !.vis = FALSE] ELSE atoms[i]]
       IN /\ atoms' = InsertAt(cut, g, NewAtoms(txt))
          /\ undoable' = [ins |-> (g + 1)..(g + n),
                          del |-> {IF i > g THEN i + n ELSE i : i \in D}]
          /\ layers' = ShiftLayers(layers, g, n)
    /\ nedits' = nedits + 1
    /\ applied' = <<>>
    /\ parses' = 0
    /\ popped' = <<>>
    /\ result' = <<>>
    /\ phase' = IF phase = "off" THEN "off" ELSE "edited"
    /\ prior' = "none"
    /\ UNCHANGED <<registry, snap, procvars>>

\* buffer_edit while the buffer's history has room for the new bytes.
Edit(s, e, txt) ==
    /\ Len(atoms) + Len(txt) <= MaxAtoms
    /\ buffer_edit(s, e, txt)

\* Buffer::undo(): the last transaction's insertions vanish, its deletions return.
Undo ==
    /\ pc = "idle"
    /\ nedits < MaxEdits
    /\ undoable.ins \cup undoable.del # {}
    /\ atoms' = [i \in 1..Len(atoms) |->
                   IF i \in undoable.ins THEN [atoms[i] EXCEPT !.vis = FALSE]
                   ELSE IF i \in undoable.del THEN [atoms[i] EXCEPT !.vis = TRUE]
                   ELSE atoms[i]]
    /\ undoable' = [ins |-> {}, del |-> {}]
    /\ nedits' = nedits + 1
    /\ applied' = <<>>
    /\ parses' = 0
    /\ popped' = <<>>
    /\ result' = <<>>
    /\ phase' = IF phase = "off" THEN "off" ELSE "edited"
    /\ prior' = "none"
    /\ UNCHANGED <<registry, snap, layers, procvars>>

\* ----------------------------------------------------------- summary tree

\* impl Default for SyntaxLayerSummary
DefaultSummary ==
    [max_depth |-> 0,
     range |-> [start |-> AnchorMax, end |-> AnchorMin],
     last_layer_range |-> [start |-> AnchorMin, end |-> AnchorMax]]

\* add_summary taking the other summary whenever it is not shallower.
add_summary_replace(self, other) ==
    IF other.max_depth >= self.max_depth THEN other
    ELSE [self EXCEPT !.last_layer_range = other.last_layer_range]

\* impl sum_tree::Summary for SyntaxLayerSummary
add_summary(self, other) ==
    IF other.max_depth > self.max_depth THEN other
    ELSE [max_depth |-> self.max_depth,
          range |->
            [start |-> IF CmpAnchor(other.range.start, self.range.start) < 0
                       THEN other.range.start ELSE self.range.start,
             end |-> IF CmpAnchor(other.range.end, self.range.end) > 0
                     THEN other.range.end ELSE self.range.end],
          last_layer_range |-> other.last_layer_range]

\* impl sum_tree::Item for SyntaxLayer
summary(layer) ==
    [max_depth |-> layer.depth, range |-> layer.range, last_layer_range |-> layer.range]

\* The cursor's position after the first n items: the summaries added one by one.
RECURSIVE Summarize(_, _)
Summarize(ls, n) ==
    IF n = 0 THEN DefaultSummary ELSE add_summary(Summarize(ls, n - 1), summary(ls[n]))

\* Cursor::start
cursor_start(ls, cur) == Summarize(ls, cur - 1)

\* Cursor::end
cursor_end(ls, cur) == Summarize(ls, Min(cur, Len(ls)))

\* impl SeekTarget for DepthAndRange
DepthAndRange_cmp(d, r, s) ==
    Then(Cmp(d, s.max_depth),
         Then(CmpAnchor(r.start, s.last_layer_range.start),
              CmpAnchor(s.last_layer_range.end, r.end)))

\* impl SeekTarget for DepthAndMaxPosition
DepthAndMaxPosition_cmp(d, p, s) ==
    Then(Cmp(d, s.max_depth), CmpAnchor(p, s.range.end))

\* impl SeekTarget for DepthAndRangeOrMaxPosition
DepthAndRangeOrMaxPosition_cmp(d, r, p, s) ==
    LET c == Cmp(d, s.max_depth)
    IN IF c # 0 THEN c
       ELSE IF CmpAnchor(p, s.range.end) > 0 THEN 1
       ELSE Then(CmpAnchor(r.start, s.last_layer_range.start),
                 CmpAnchor(s.last_layer_range.end, r.end))

DepthAndRange(d, r) == [kind |-> "DepthAndRange", d |-> d, r |-> r, p |-> AnchorMin]

DepthAndMaxPosition(d, p) ==
    [kind |-> "DepthAndMaxPosition", d |-> d, r |-> [start |-> p, end |-> p], p |-> p]

DepthAndRangeOrMaxPosition(d, r, p) ==
    [kind |-> "DepthAndRangeOrMaxPosition", d |-> d, r |-> r, p |-> p]

TargetCmp(t, s) ==
    IF t.kind = "DepthAndRange" THEN DepthAndRange_cmp(t.d, t.r, s)
    ELSE IF t.kind = "DepthAndMaxPosition" THEN DepthAndMaxPosition_cmp(t.d, t.p, s)
    ELSE DepthAndRangeOrMaxPosition_cmp(t.d, t.r, t.p, s)

\* Cursor::slice(target, Bias::Left): the item the cursor stops at; the slice is
\* the items from cur up to it.
RECURSIVE slice_end(_, _, _)
slice_end(ls, cur, t) ==
    IF cur <= Len(ls) /\ TargetCmp(t, Summarize(ls, cur)) > 0
    THEN slice_end(ls, cur + 1, t)
    ELSE cur

NoEdits(n) == [k \in 1..n |-> <<>>]

FullRange == [start |-> AnchorMin, end |-> AnchorMax]

\* ------------------------------------------------------------- interpolate

\* SyntaxMap::set_language_registry
SetLanguageRegistry ==
    /\ pc = "idle"
    /\ ~registry
    /\ registry' = TRUE
    /\ phase' = IF layers = <<>> /\ phase = "edited" THEN phase ELSE "off"
    /\ applied' = <<>>
    /\ parses' = 0
    /\ popped' = <<>>
    /\ result' = <<>>
    /\ prior' = "none"
    /\ UNCHANGED <<bufvars, layers, procvars, snap>>

\* The tree_sitter::InputEdit interpolate builds for an edit that intersects a
\* layer starting at start_byte.
InputEdit(edit, start_byte) ==
    IF edit.new.start >= start_byte
    THEN [start_byte |-> edit.new.start - start_byte,
          old_end_byte |-> edit.new.start - start_byte + (edit.old.end - edit.old.start),
          new_end_byte |-> edit.new.end - start_byte]
    ELSE [start_byte |-> 0,
          old_end_byte |-> edit.new.end - start_byte,
          new_end_byte |-> 0]

\* ApplyEdits leaving the loop after the first edit it applies.
RECURSIVE ApplyEdits_first_only(_, _, _, _)
ApplyEdits_first_only(es, i, lr, st) ==
    IF i = 0 THEN st
    ELSE IF es[i].new.start > lr.end THEN ApplyEdits_first_only(es, i - 1, lr, st)
    ELSE IF es[i].new.end <= lr.start
    THEN [st EXCEPT !.edits = SubSeq(es, i + 1, Len(es))]
    ELSE LET te == InputEdit(es[i], lr.start)
         IN [st EXCEPT !.tree = tree_edit(@, te),
                       !.log = Append(@, [edit |-> es[i], tree_edit |-> te])]

\* ApplyEdits without "ignore any edits that start after the end of this
\* layer" and "ignore edits that end before the start of this layer".
RECURSIVE ApplyEdits_unfiltered(_, _, _, _)
ApplyEdits_unfiltered(es, i, lr, st) ==
    IF i = 0 THEN st
    ELSE LET te == InputEdit(es[i], lr.start)
             st1 == [st EXCEPT !.tree = tree_edit(@, te),
                               !.log = Append(@, [edit |-> es[i], tree_edit |-> te])]
         IN IF es[i].new.start < lr.start THEN st1 ELSE ApplyEdits_unfiltered(es, i - 1, lr, st1)

\* for (i, edit) in edits.iter().enumerate().rev(): st = [tree, edits, log]
RECURSIVE ApplyEdits(_, _, _, _)
ApplyEdits(es, i, lr, st) ==
    IF i = 0 THEN st
    ELSE IF es[i].new.start > lr.end THEN ApplyEdits(es, i - 1, lr, st)
    ELSE IF es[i].new.end <= lr.start
    THEN [st EXCEPT !.edits = SubSeq(es, i + 1, Len(es))]
    ELSE LET te == InputEdit(es[i], lr.start)
             st1 == [st EXCEPT !.tree = tree_edit(@, te),
                               !.log = Append(@, [edit |-> es[i], tree_edit |-> te])]
         IN IF es[i].new.start < lr.start THEN st1 ELSE ApplyEdits(es, i - 1, lr, st1)

\* SyntaxMap::interpolate, up to the first "for depth": the edits are collected;
\* with none, the call returns at once.
InterpolateBegin ==
    /\ pc = "idle"
    /\ IF edits_since(atoms) = <<>>
       THEN /\ atoms' = ObserveVersion(atoms)
            /\ applied' = NoEdits(Len(layers))
            /\ phase' = IF phase = "edited" THEN "interpolated" ELSE "off"
            /\ UNCHANGED <<pc, cursor, out, depth>>
       ELSE /\ pc' = "interp_for"
            /\ cursor' = 1
            /\ out' = <<>>
            /\ applied' = <<>>
            /\ depth' = 0
            /\ UNCHANGED <<atoms, phase>>
    /\ parses' = 0
    /\ popped' = <<>>
    /\ result' = <<>>
    /\ prior' = "none"
    /\ UNCHANGED <<undoable, nedits, registry, snap, layers, changed_regions, queue, edits>>

\* The head of "for depth in 0..=max_depth", with the slice of the shallower layers.
InterpolateFor ==
    /\ pc = "interp_for"
    /\ depth <= Summarize(layers, Len(layers)).max_depth
    /\ LET stop == IF cursor_start(layers, cursor).max_depth < depth
                   THEN slice_end(layers, cursor, DepthAndRange(depth, FullRange))
                   ELSE cursor
       IN /\ cursor' = stop
          /\ out' = out \o SubSeq(layers, cursor, stop - 1)
          /\ applied' = applied \o NoEdits(stop - cursor)
    /\ edits' = edits_since(atoms)
    /\ pc' = "interp_while"
    /\ UNCHANGED <<bufvars, registry, snap, layers, changed_regions, queue, depth, parses,
                   popped, result, phase, prior>>

\* InterpolateWhile with every pending edit applied to the layer at the cursor,
\* wherever the edit lies.
InterpolateWhile_unfiltered ==
    /\ pc = "interp_while"
    /\ IF cursor > Len(layers) \/ edits = <<>>
       THEN /\ pc' = "interp_for"
            /\ depth' = depth + 1
            /\ UNCHANGED <<cursor, out, applied, edits>>
       ELSE LET layer == layers[cursor]
                lr == RangeToOffset(atoms, layer.range)
                st == ApplyEdits_unfiltered(edits, Len(edits), lr,
                                            [tree |-> layer.tree, edits |-> edits, log |-> <<>>])
            IN /\ out' = Append(out, [layer EXCEPT !.tree = st.tree])
               /\ applied' = Append(applied, st.log)
               /\ edits' = st.edits
               /\ cursor' = cursor + 1
               /\ UNCHANGED <<pc, depth>>
    /\ UNCHANGED <<bufvars, registry, snap, layers, changed_regions, queue, parses, popped, result,
                   phase, prior>>

\* One iteration of "while let Some(layer) = cursor.item()".
InterpolateWhile ==
    /\ pc = "interp_while"
    /\ IF cursor > Len(layers) \/ edits = <<>>
       THEN /\ pc' = "interp_for"
            /\ depth' = depth + 1
            /\ UNCHANGED <<cursor, out, applied, edits>>
       ELSE LET layer == layers[cursor]
                lr == RangeToOffset(atoms, layer.range)
            IN IF edits[1].new.start > lr.end
               THEN LET t == DepthAndMaxPosition(depth, anchor_before(atoms, edits[1].new.start))
                        stop == slice_end(layers, cursor, t)
                    IN /\ cursor' = stop
                       /\ out' = out \o SubSeq(layers, cursor, stop - 1)
                       /\ applied' = applied \o NoEdits(stop - cursor)
                       /\ UNCHANGED <<pc, depth, edits>>
               ELSE IF edits[Len(edits)].new.end < lr.start
               THEN /\ pc' = "interp_for"
                    /\ depth' = depth + 1
                    /\ UNCHANGED <<cursor, out, applied, edits>>
               ELSE LET st == ApplyEdits(edits, Len(edits), lr,
                                         [tree |-> layer.tree, edits |-> edits, log |-> <<>>])
                    IN /\ out' = Append(out, [layer EXCEPT !.tree = st.tree])
                       /\ applied' = Append(applied, st.log)
                       /\ edits' = st.edits
                       /\ cursor' = cursor + 1
                       /\ UNCHANGED <<pc, depth>>
    /\ UNCHANGED <<bufvars, registry, snap, layers, changed_regions, queue, parses, popped, result,
                   phase, prior>>

\* InterpolateReturn without "layers.push_tree(cursor.suffix(..))".
InterpolateReturn_no_suffix ==
    /\ pc = "interp_for"
    /\ depth > Summarize(layers, Len(layers)).max_depth
    /\ layers' = out
    /\ applied' = applied
    /\ atoms' = ObserveVersion(atoms)
    /\ pc' = "idle"
    /\ out' = <<>>
    /\ cursor' = 1
    /\ depth' = 0
    /\ edits' = <<>>
    /\ phase' = IF phase = "edited" THEN "interpolated" ELSE "off"
    /\ UNCHANGED <<undoable, nedits, registry, snap, changed_regions, queue, parses, popped, result,
                   prior>>

\* InterpolateReturn storing the new tree into the SyntaxSnapshot the callers'
\* snapshots share, instead of into the map's own.
InterpolateReturn_shared ==
    /\ pc = "interp_for"
    /\ depth > Summarize(layers, Len(layers)).max_depth
    /\ layers' = out \o SubSeq(layers, cursor, Len(layers))
    /\ snap' = IF snap = <<>> THEN snap ELSE <<[snap[1] EXCEPT !.layers = layers']>>
    /\ applied' = applied \o NoEdits(Len(layers) + 1 - cursor)
    /\ atoms' = ObserveVersion(atoms)
    /\ pc' = "idle"
    /\ out' = <<>>
    /\ cursor' = 1
    /\ depth' = 0
    /\ edits' = <<>>
    /\ phase' = IF phase = "edited" THEN "interpolated" ELSE "off"
    /\ UNCHANGED <<undoable, nedits, registry, changed_regions, queue, parses, popped, result,
                   prior>>

\* After the last depth: the suffix is kept, the new tree and the version stored.
InterpolateReturn ==
    /\ pc = "interp_for"
    /\ depth > Summarize(layers, Len(layers)).max_depth
    /\ layers' = out \o SubSeq(layers, cursor, Len(layers))
    /\ applied' = applied \o NoEdits(Len(layers) + 1 - cursor)
    /\ atoms' = ObserveVersion(atoms)
    /\ pc' = "idle"
    /\ out' = <<>>
    /\ cursor' = 1
    /\ depth' = 0
    /\ edits' = <<>>
    /\ phase' = IF phase = "edited" THEN "interpolated" ELSE "off"
    /\ UNCHANGED <<undoable, nedits, registry, snap, changed_regions, queue, parses, popped, result,
                   prior>>

\* ----------------------------------------------------------------- reparse

\* ReparseStep::range
step_range(s) ==
    IF s.ranges = <<>> THEN [start |-> 0, end |-> 0]
    ELSE [start |-> s.ranges[1].start_byte, end |-> s.ranges[Len(s.ranges)].end_byte]

\* ReparseStep::cmp with the depths compared the other way round: the deepest
\* step is the greatest.
ReparseStep_cmp_deepest(self, other) ==
    Then(Cmp(self.depth, other.depth),
         Then(Cmp(step_range(other).start, step_range(self).start),
              Cmp(step_range(self).end, step_range(other).end)))

\* impl Ord for ReparseStep
ReparseStep_cmp(self, other) ==
    Then(Cmp(other.depth, self.depth),
         Then(Cmp(step_range(other).start, step_range(self).start),
              Cmp(step_range(self).end, step_range(other).end)))

\* BinaryHeap::push; the heap is kept as the sequence in which pop returns it
\* (greatest first).
heap_push(q, s) ==
    LET k == Cardinality({i \in 1..Len(q) : ReparseStep_cmp(q[i], s) >= 0})
    IN InsertAt(q, k, <<s>>)

\* ChangedRegion::cmp
ChangedRegion_cmp(self, other) ==
    Then(Cmp(self.depth, other.depth),
         Then(CmpAnchor(self.range.start, other.range.start),
              CmpAnchor(other.range.end, self.range.end)))

\* if let Err(i) = changed_regions.binary_search_by(..) { changed_regions.insert(i, region) }
insert_region(regions, region) ==
    IF \E i \in 1..Len(regions) : ChangedRegion_cmp(regions[i], region) = 0
    THEN regions
    ELSE InsertAt(regions,
                  Cardinality({i \in 1..Len(regions) : ChangedRegion_cmp(regions[i], region) < 0}),
                  <<region>>)

\* fn layer_is_changed
layer_is_changed(layer, regions) ==
    \E i \in 1..Len(regions) :
        LET is_before_layer == CmpAnchor(regions[i].range.end, layer.range.start) <= 0
            is_after_layer == CmpAnchor(regions[i].range.start, layer.range.end) >= 0
        IN ~is_before_layer /\ ~is_after_layer

\* retain keeping every region.
retain_all(regions, d, range) == regions

\* changed_regions.retain(..)
retain(regions, d, range) ==
    SelectSeq(regions,
              LAMBDA r : r.depth > d
                         \/ (r.depth = d /\ CmpAnchor(r.range.end, range.start) > 0))

\* while let Some(layer) = cursor.item() { .. }: st = [cursor, out, regions]
RECURSIVE Walk(_, _, _, _)
Walk(ls, st, d, target) ==
    IF st.cursor > Len(ls) THEN st
    ELSE IF TargetCmp(target, cursor_end(ls, st.cursor)) <= 0 THEN st
    ELSE IF layer_is_changed(ls[st.cursor], st.regions)
    THEN Walk(ls,
              [st EXCEPT !.regions = insert_region(@, [depth |-> d + 1,
                                                       range |-> ls[st.cursor].range]),
                         !.cursor = @ + 1],
              d, target)
    ELSE Walk(ls, [st EXCEPT !.out = Append(@, ls[st.cursor]), !.cursor = @ + 1], d, target)

\* if target.cmp(cursor.start(), &text).is_gt() { .. }: the old layers before
\* the step are sliced, walked and the changed regions collected.
Advance(ls, st, d, range) ==
    LET target == DepthAndRange(d, range)
    IN IF TargetCmp(target, cursor_start(ls, st.cursor)) > 0
       THEN LET p == IF st.regions = <<>> THEN AnchorMax ELSE st.regions[1].range.start
                stop == slice_end(ls, st.cursor, DepthAndRangeOrMaxPosition(d, range, p))
                st1 == [st EXCEPT !.cursor = stop,
                                  !.out = @ \o SubSeq(ls, st.cursor, stop - 1)]
                st2 == Walk(ls, st1, d, target)
            IN [st2 EXCEPT !.regions = retain(@, d, range)]
       ELSE st

\* The languages of the registry. "rust" is tests::rust_lang. "alt" names in
\* its injection pattern a language nobody registered; "md" gives its pattern
\* no language and takes the name from a capture, the first byte inside the
\* token tree; "nest" injects itself over the whole of its root node; "x" is a
\* language whose grammar is not loaded; "two" has two injection patterns, one
\* over the root node for "x" and one over token trees for "rust".
Languages == {"rust", "alt", "md", "nest", "x", "two"}

\* language.grammar.as_deref()
grammar(language) == language # "x"

\* get_language resolving every name, registered or not.
get_language_any(name) == <<name>>

\* LanguageRegistry::get_language: the registered language of that name, if any.
get_language(name) == IF name \in Languages THEN <<name>> ELSE <<>>

\* grammar.injection_config: for every pattern of the query the node captured
\* as @content and the language the pattern sets (languages_by_pattern_ix), and
\* whether a @language capture exists (language_capture_ix).
injection_config(language) ==
    [patterns |->
        IF language = "two"
        THEN <<[content |-> "root", language |-> <<"x">>],
               [content |-> "token_tree", language |-> <<"rust">>]>>
        ELSE <<[content |-> IF language = "nest" THEN "root" ELSE "token_tree",
                language |-> IF language = "rust" THEN <<"rust">>
                             ELSE IF language = "alt" THEN <<"cpp">>
                             ELSE IF language = "nest" THEN <<"nest">>
                             ELSE <<>>]>>,
     language_capture |-> language = "md"]

\* fn parse_text: the included ranges are rebased to start at 0.
parse_text(at, old_tree, ranges) ==
    LET text == Text(at)
        start_byte == IF ranges = <<>> THEN 0 ELSE ranges[1].start_byte
        end_byte == IF ranges = <<>> THEN Len(text) ELSE ranges[Len(ranges)].end_byte
    IN parse_with(SubSeq(text, start_byte + 1, end_byte), old_tree)

\* The macro invocations the injection query matches in a tree: those that are
\* not tokens of another macro's token tree; [bang, close] in 1-based cells.
injection_matches(tree) ==
    LET cs == TreeChars(tree)
        m == Match(cs)
        top == SelectSeq([i \in 1..Len(cs) |-> i],
                         LAMBDA i : IsBang(cs, m, i) /\ ~InContent(cs, m, i))
    IN [k \in 1..Len(top) |-> [bang |-> top[k], close |-> m[top[k] + 1]]]

\* The matches of one pattern of the query in a tree.
pattern_matches(config, tree, ix) ==
    LET ms == IF config.patterns[ix].content = "root"
              THEN <<[bang |-> 0, close |-> Len(tree.cells)]>>
              ELSE injection_matches(tree)
    IN [k \in 1..Len(ms) |-> [bang |-> ms[k].bang, close |-> ms[k].close,
                              pattern_index |-> ix - 1]]

RECURSIVE Flatten(_)
Flatten(ss) == IF ss = <<>> THEN <<>> ELSE Head(ss) \o Flatten(Tail(ss))

\* query_cursor.set_byte_range(a..b); query_cursor.matches(..): the matches
\* whose node (the macro_invocation, or the root) intersects the byte range, in
\* the order of the start of their nodes.
matches(config, tree, qr) ==
    LET n == Len(tree.cells)
        all == Flatten([p \in 1..(n + 1) |->
                   Flatten([ix \in 1..Len(config.patterns) |->
                       SelectSeq(pattern_matches(config, tree, ix),
                                 LAMBDA mt : mt.bang = p - 1)])])
    IN SelectSeq(all, LAMBDA mt : mt.bang - 1 < qr.end /\ mt.close > qr.start)

\* The language a match names: its pattern's, or else the text of the node
\* captured as @language, if there is one.
language_name(config, at, start_byte, mt) ==
    IF config.patterns[mt.pattern_index + 1].language # <<>>
    THEN config.patterns[mt.pattern_index + 1].language
    ELSE IF config.language_capture /\ mt.close > mt.bang + 2
    THEN <<Text(at)[start_byte + mt.bang + 2]>>
    ELSE <<>>

\* The body of the two for loops of get_injections over the matches ms, with
\* st = [queue, prev_match].
RECURSIVE InjectMatches(_, _, _, _, _, _)
InjectMatches(config, at, ms, d, start_byte, st) ==
    IF ms = <<>> THEN st
    ELSE LET node == [start_byte |-> start_byte + Head(ms).bang,
                      end_byte |-> start_byte + Head(ms).close]
             content_ranges == <<node>>
             content_range == [start |-> content_ranges[1].start_byte,
                               end |-> content_ranges[Len(content_ranges)].end_byte]
             key == [pattern_index |-> Head(ms).pattern_index, range |-> content_range]
             name == language_name(config, at, start_byte, Head(ms))
             language == IF name = <<>> THEN <<>> ELSE get_language(name[1])
             step == [depth |-> d,
                      language |-> language[1],
                      ranges |-> content_ranges,
                      range |-> [start |-> anchor_before(at, content_range.start),
                                 end |-> anchor_after(at, content_range.end)]]
         IN IF st.prev_match = <<key>>
            THEN InjectMatches(config, at, Tail(ms), d, start_byte, st)
            ELSE InjectMatches(config, at, Tail(ms), d, start_byte,
                               [queue |-> IF language # <<>> THEN heap_push(st.queue, step)
                                          ELSE st.queue,
                                prev_match |-> <<key>>])

\* get_injections with the steps pushed one level too deep.
get_injections_deeper(config, at, tree, d, start_byte, query_ranges, q) ==
    LET ms == Flatten([k \in 1..Len(query_ranges) |-> matches(config, tree, query_ranges[k])])
    IN InjectMatches(config, at, ms, d + 1, start_byte, [queue |-> q, prev_match |-> <<>>]).queue

\* get_injections with the capture's bytes taken as buffer bytes (start_byte
\* not added).
get_injections_local(config, at, tree, d, start_byte, query_ranges, q) ==
    LET ms == Flatten([k \in 1..Len(query_ranges) |-> matches(config, tree, query_ranges[k])])
    IN InjectMatches(config, at, ms, d, 0, [queue |-> q, prev_match |-> <<>>]).queue

\* fn get_injections: the queue after it.
get_injections(config, at, tree, d, start_byte, query_ranges, q) ==
    LET ms == Flatten([k \in 1..Len(query_ranges) |-> matches(config, tree, query_ranges[k])])
    IN InjectMatches(config, at, ms, d, start_byte, [queue |-> q, prev_match |-> <<>>]).queue

\* for range in &changed_ranges { .. changed_regions.insert(i, region) }
RECURSIVE insert_changed(_, _, _, _)
insert_changed(at, regions, d, crs) ==
    IF crs = <<>> THEN regions
    ELSE insert_changed(at,
                        insert_region(regions,
                                      [depth |-> d,
                                       range |-> [start |-> anchor_before(at, Head(crs).start),
                                                  end |-> anchor_after(at, Head(crs).end)]]),
                        d, Tail(crs))

\* The step reparse starts from, for the language it is called with.
root_step(language) ==
    [depth |-> 0, language |-> language, ranges |-> <<>>, range |-> FullRange]

\* The tests call reparse with rust_lang.
RootStep == root_step("rust")

\* The state of reparse before "loop".
ReparseStart ==
    [cursor |-> 1, out |-> <<>>, regions |-> <<>>, queue |-> <<RootStep>>,
     parses |-> 0, popped |-> <<>>]

\* reparse_push with the new layer put in front of the new index instead of
\* being pushed at its end.
reparse_push_front(at, reg, st, step, adv, start_byte, end_byte, reuse, old_tree, tree) ==
    LET changed == IF reuse THEN changed_ranges(old_tree[1], tree)
                   ELSE <<[start |-> 0, end |-> end_byte - start_byte]>>
        layer == [depth |-> step.depth, range |-> step.range, tree |-> tree,
                  language |-> step.language]
        inject == reg /\ changed # <<>>
    IN [cursor |-> IF reuse THEN adv.cursor + 1 ELSE adv.cursor,
        out |-> <<layer>> \o adv.out,
        regions |-> IF inject
                    THEN insert_changed(at, adv.regions, step.depth + 1, changed)
                    ELSE adv.regions,
        queue |-> IF inject
                  THEN get_injections(injection_config(step.language), at, tree,
                                      step.depth + 1, start_byte, changed, Tail(st.queue))
                  ELSE Tail(st.queue),
        parses |-> st.parses + 1,
        popped |-> Append(st.popped, step)]

\* The rest of an iteration once the step's tree is at hand: the layer is pushed
\* and, with a registry and changed ranges, the injections are queued.
reparse_push(at, reg, st, step, adv, start_byte, end_byte, reuse, old_tree, tree) ==
    LET changed == IF reuse THEN changed_ranges(old_tree[1], tree)
                   ELSE <<[start |-> 0, end |-> end_byte - start_byte]>>
        layer == [depth |-> step.depth, range |-> step.range, tree |-> tree,
                  language |-> step.language]
        inject == reg /\ changed # <<>>
    IN [cursor |-> IF reuse THEN adv.cursor + 1 ELSE adv.cursor,
        out |-> Append(adv.out, layer),
        regions |-> IF inject
                    THEN insert_changed(at, adv.regions, step.depth + 1, changed)
                    ELSE adv.regions,
        queue |-> IF inject
                  THEN get_injections(injection_config(step.language), at, tree,
                                      step.depth + 1, start_byte, changed, Tail(st.queue))
                  ELSE Tail(st.queue),
        parses |-> st.parses + 1,
        popped |-> Append(st.popped, step)]

\* reparse_parse without the check of language.grammar: every step is parsed.
reparse_parse_any_language(at, reg, ls, st, step, adv, start_byte, end_byte) ==
    LET reuse == /\ adv.cursor <= Len(ls)
                 /\ RangeToOffset(at, ls[adv.cursor].range)
                      = [start |-> start_byte, end |-> end_byte]
        old_tree == IF reuse THEN <<ls[adv.cursor].tree>> ELSE <<>>
    IN reparse_push(at, reg, st, step, adv, start_byte, end_byte, reuse, old_tree,
                    parse_text(at, old_tree, step.ranges))

\* An iteration after the seek and the walk, which left the cursor at adv: the
\* old layer with the step's byte range is reused, a step whose language has no
\* grammar is skipped, and the step is parsed.
reparse_parse(at, reg, ls, st, step, adv, start_byte, end_byte) ==
    LET reuse == /\ adv.cursor <= Len(ls)
                 /\ RangeToOffset(at, ls[adv.cursor].range)
                      = [start |-> start_byte, end |-> end_byte]
        old_tree == IF reuse THEN <<ls[adv.cursor].tree>> ELSE <<>>
    IN IF ~grammar(step.language)
       THEN [cursor |-> IF reuse THEN adv.cursor + 1 ELSE adv.cursor,
             out |-> adv.out,
             regions |-> adv.regions,
             queue |-> Tail(st.queue),
             parses |-> st.parses,
             popped |-> Append(st.popped, step)]
       ELSE reparse_push(at, reg, st, step, adv, start_byte, end_byte, reuse, old_tree,
                         parse_text(at, old_tree, step.ranges))

\* One iteration of "loop" that pops a step, over the old layers ls, with
\* st = [cursor, out, regions, queue, parses, popped].
reparse_step(at, reg, ls, st) ==
    LET step == Head(st.queue)
        ranges == step.ranges
    IN reparse_parse(at, reg, ls, st, step,
                     Advance(ls, [cursor |-> st.cursor, out |-> st.out, regions |-> st.regions],
                             step.depth, step.range),
                     IF ranges # <<>> THEN ranges[1].start_byte ELSE 0,
                     IF ranges # <<>> THEN ranges[Len(ranges)].end_byte ELSE BufLen(at))

\* The last iteration of "loop": no step is left, the rest of the old layers is
\* walked towards (cursor.start().max_depth, MAX..MAX).
reparse_finish(ls, st) ==
    Advance(ls, [cursor |-> st.cursor, out |-> st.out, regions |-> st.regions],
            cursor_start(ls, st.cursor).max_depth,
            [start |-> AnchorMax, end |-> AnchorMax])

\* SyntaxSnapshot::reparse as a whole: the new layers.
RECURSIVE reparse_loop(_, _, _, _)
reparse_loop(at, reg, ls, st) ==
    IF st.queue = <<>> THEN reparse_finish(ls, st).out
    ELSE reparse_loop(at, reg, ls, reparse_step(at, reg, ls, st))

\* SyntaxMap::new() followed by reparse: the index rebuilt from the text alone.
FreshLayers(at, reg) == reparse_loop(at, reg, <<>>, ReparseStart)

\* SyntaxMap::reparse(language, text) up to "loop": the version is stored first.
Reparse(language) ==
    /\ pc = "idle"
    /\ atoms' = ObserveVersion(atoms)
    /\ pc' = "reparse"
    /\ cursor' = ReparseStart.cursor
    /\ out' = ReparseStart.out
    /\ changed_regions' = ReparseStart.regions
    /\ queue' = <<root_step(language)>>
    /\ parses' = ReparseStart.parses
    /\ popped' = ReparseStart.popped
    /\ applied' = <<>>
    /\ result' = <<>>
    /\ prior' = IF layers = <<>> THEN "fresh" ELSE IF popped # <<>> THEN "reparse" ELSE "edits"
    /\ phase' = IF phase = "interpolated" \/ (phase = "edited" /\ layers = <<>>)
                THEN "reparsing" ELSE "off"
    /\ UNCHANGED <<undoable, nedits, registry, snap, layers, depth, edits>>

\* reparse called with rust_lang, as the tests call it.
ReparseBegin == Reparse("rust")

\* One iteration of "loop" that pops a step.
ReparseStep ==
    /\ pc = "reparse"
    /\ queue # <<>>
    /\ \E st \in {reparse_step(atoms, registry, layers,
                               [cursor |-> cursor, out |-> out, regions |-> changed_regions,
                                queue |-> queue, parses |-> parses, popped |-> popped])} :
          /\ cursor' = st.cursor
          /\ out' = st.out
          /\ changed_regions' = st.regions
          /\ queue' = st.queue
          /\ parses' = st.parses
          /\ popped' = st.popped
    /\ UNCHANGED <<bufvars, registry, snap, layers, pc, depth, edits, applied, result, phase,
                   prior>>

\* The last iteration of "loop", then self.layers = layers.
ReparseReturn ==
    /\ pc = "reparse"
    /\ queue = <<>>
    /\ layers' = reparse_finish(layers, [cursor |-> cursor, out |-> out,
                                         regions |-> changed_regions]).out
    /\ changed_regions' = <<>>
    /\ pc' = "idle"
    /\ cursor' = 1
    /\ out' = <<>>
    /\ phase' = IF phase = "reparsing" THEN "synced" ELSE "off"
    /\ UNCHANGED <<bufvars, registry, snap, queue, depth, edits, applied, parses, popped, result,
                   prior>>

Init ==
    /\ atoms \in {NewAtoms(t) : t \in InitTexts}
    /\ undoable = [ins |-> {}, del |-> {}]
    /\ nedits = 0
    /\ registry = FALSE
    /\ layers = <<>>
    /\ pc = "idle"
    /\ cursor = 1
    /\ out = <<>>
    /\ changed_regions = <<>>
    /\ queue = <<>>
    /\ depth = 0
    /\ edits = <<>>
    /\ applied = <<>>
    /\ parses = 0
    /\ popped = <<>>
    /\ result = <<>>
    /\ phase = "edited"
    /\ prior = "none"
    /\ snap = <<>>

Next ==
    \/ \E s \in 0..MaxAtoms, c \in Chars : s <= BufLen(atoms) /\ Edit(s, s, <<c>>)
    \/ \E s \in 0..MaxAtoms : s < BufLen(atoms) /\ Edit(s, s + 1, <<>>)
    \/ \E s \in 0..MaxAtoms : s < BufLen(atoms) /\ Edit(s, s + 1, <<"x">>)
    \/ Undo
    \/ SetLanguageRegistry
    \/ InterpolateBegin
    \/ InterpolateFor
    \/ InterpolateWhile
    \/ InterpolateReturn
    \/ ReparseBegin
    \/ ReparseStep
    \/ ReparseReturn

Spec == Init /\ [][Next]_vars

\* ------------------------------------------------------------- range query

\* sum_tree: a node holds at most 2 * TREE_BASE items or children.
TREE_BASE == 6

\* The sizes of the leaves of a SumTree after one more push: the item goes to
\* the rightmost leaf, and a leaf that overflows is split evenly.
push_leaf(sizes) ==
    IF sizes = <<>> THEN <<1>>
    ELSE LET n == Len(sizes)
             total == sizes[n] + 1
         IN IF total <= 2 * TREE_BASE THEN [sizes EXCEPT ![n] = total]
            ELSE SubSeq(sizes, 1, n - 1) \o <<(total + 1) \div 2, total - (total + 1) \div 2>>

\* The leaves of the tree reparse builds by pushing n layers.
RECURSIVE leaf_sizes(_)
leaf_sizes(n) == IF n = 0 THEN <<>> ELSE push_leaf(leaf_sizes(n - 1))

\* The first and last item of the leaf that holds item i.
RECURSIVE leaf_of(_, _, _)
leaf_of(sizes, i, first) ==
    IF i < first + Head(sizes) THEN [first |-> first, last |-> first + Head(sizes) - 1]
    ELSE leaf_of(Tail(sizes), i, first + Head(sizes))

\* The summary a node keeps of items first..last: the item summaries added up.
RECURSIVE node_summary(_, _, _)
node_summary(ls, first, last) ==
    IF last < first THEN DefaultSummary
    ELSE add_summary(node_summary(ls, first, last - 1), summary(ls[last]))

\* The closure given to self.layers.filter in layers_for_range.
filter_node(s, start, end) ==
    LET is_before_start == CmpAnchor(s.range.end, start) < 0
        is_after_end == CmpAnchor(s.range.start, end) > 0
    IN ~is_before_start /\ ~is_after_end

\* FilterCursor: the items it stops at. It descends into a child only if the
\* child's summary passes the filter and stops at the items of a leaf whose own
\* summary passes; a tree that is a single leaf has no child summaries.
filter_items(ls, start, end) ==
    LET sizes == leaf_sizes(Len(ls))
    IN SelectSeq([i \in 1..Len(ls) |-> i],
                 LAMBDA i :
                     /\ filter_node(summary(ls[i]), start, end)
                     /\ Len(sizes) > 1 =>
                           LET leaf == leaf_of(sizes, i, 1)
                           IN filter_node(node_summary(ls, leaf.first, leaf.last), start, end))

\* SyntaxSnapshot::layers_for_range(s..e, buffer): the layers returned.
layers_for_range(at, ls, s, e) ==
    LET start == anchor_before(at, s)
        end == anchor_after(at, e)
        visited == filter_items(ls, start, end)
    IN SelectSeq([k \in 1..Len(visited) |-> ls[visited[k]]],
                 LAMBDA layer : grammar(layer.language))

\* A caller queries the index between two calls.
Query(s, e) ==
    /\ pc = "idle"
    /\ layers # <<>>
    /\ result' = <<[start |-> s, end |-> e, layers |-> layers_for_range(atoms, layers, s, e)]>>
    /\ UNCHANGED <<bufvars, registry, snap, layers, procvars, applied, parses, popped, phase,
                   prior>>

\* Buffers whose index has more layers than one node holds, and one that has not.
QueryTexts ==
    { <<"!", "(", ")", "!", "(", ")", "!", "(", ")", "!", "(", ")", "!", "(", ")", "!", "(", ")",
        "!", "(", ")", "!", "(", ")", "!", "(", ")", "!", "(", ")", "!", "(", ")", "!", "(", ")">>,
      <<"!", "(", "!", "(", ")", ")", "!", "(", ")">> }

InitQuery ==
    /\ atoms \in {NewAtoms(t) : t \in QueryTexts}
    /\ undoable = [ins |-> {}, del |-> {}]
    /\ nedits = 0
    /\ registry = TRUE
    /\ layers = <<>>
    /\ pc = "idle"
    /\ cursor = 1
    /\ out = <<>>
    /\ changed_regions = <<>>
    /\ queue = <<>>
    /\ depth = 0
    /\ edits = <<>>
    /\ applied = <<>>
    /\ parses = 0
    /\ popped = <<>>
    /\ result = <<>>
    /\ phase = "edited"
    /\ prior = "none"
    /\ snap = <<>>

NextQuery ==
    \/ ReparseBegin
    \/ ReparseStep
    \/ ReparseReturn
    \/ \E s \in 0..BufLen(atoms), n \in 0..MaxQueryLen :
          s + n <= BufLen(atoms) /\ Query(s, s + n)

\* A buffer is parsed and then queried; no edits.
SpecQuery == InitQuery /\ [][NextQuery]_vars

\* --------------------------------------------------------------- languages

\* Buffers with one macro naming "x", with a macro naming nothing next to one
\* naming "!", and with a macro naming "x" next to one naming nothing.
LangTexts ==
    { <<"!", "(", "x", ")">>,
      <<"!", "(", ")", "!", "(", "!", ")">>,
      <<"!", "(", "x", ")", "!", "(", ")">> }

InitLang ==
    /\ atoms \in {NewAtoms(t) : t \in LangTexts}
    /\ undoable = [ins |-> {}, del |-> {}]
    /\ nedits = 0
    /\ registry = FALSE
    /\ layers = <<>>
    /\ pc = "idle"
    /\ cursor = 1
    /\ out = <<>>
    /\ changed_regions = <<>>
    /\ queue = <<>>
    /\ depth = 0
    /\ edits = <<>>
    /\ applied = <<>>
    /\ parses = 0
    /\ popped = <<>>
    /\ result = <<>>
    /\ phase = "edited"
    /\ prior = "none"
    /\ snap = <<>>

NextLang ==
    \/ SetLanguageRegistry
    \/ \E language \in Languages : Reparse(language)
    \/ Len(popped) < MaxSteps /\ ReparseStep
    \/ ReparseReturn

\* A buffer is reparsed, again and again, with any language of the registry.
SpecLang == InitLang /\ [][NextLang]_vars

\* --------------------------------------------------------------- snapshots

\* SyntaxMap::snapshot: self.snapshot.clone(), kept by the caller together with
\* the BufferSnapshot it goes with.
Snapshot ==
    /\ pc = "idle"
    /\ snap = <<>>
    /\ layers # <<>>
    /\ snap' = <<[layers |-> layers, atoms |-> atoms]>>
    /\ UNCHANGED <<bufvars, registry, layers, procvars, applied, parses, popped, result, phase,
                   prior>>

\* The holder of the snapshot queries it, at any moment: layers_for_range on
\* the snapshot, for the empty range at offset s.
SnapshotQuery(s) ==
    /\ snap # <<>>
    /\ result' = <<[start |-> s, end |-> s,
                    layers |-> layers_for_range(snap[1].atoms, snap[1].layers, s, s)]>>
    /\ UNCHANGED <<bufvars, registry, layers, procvars, applied, parses, popped, phase, prior,
                   snap>>

InitSnap ==
    /\ atoms = NewAtoms(<<"!", "(", "!", "(", ")">>)
    /\ undoable = [ins |-> {}, del |-> {}]
    /\ nedits = 0
    /\ registry = TRUE
    /\ layers = <<>>
    /\ pc = "idle"
    /\ cursor = 1
    /\ out = <<>>
    /\ changed_regions = <<>>
    /\ queue = <<>>
    /\ depth = 0
    /\ edits = <<>>
    /\ applied = <<>>
    /\ parses = 0
    /\ popped = <<>>
    /\ result = <<>>
    /\ phase = "edited"
    /\ prior = "none"
    /\ snap = <<>>

NextSnap ==
    \/ \E s \in 0..MaxAtoms : s <= BufLen(atoms) /\ Edit(s, s, <<")">>)
    \/ \E s \in 0..MaxAtoms : s < BufLen(atoms) /\ Edit(s, s + 1, <<>>)
    \/ InterpolateBegin
    \/ InterpolateFor
    \/ InterpolateWhile
    \/ InterpolateReturn
    \/ ReparseBegin
    \/ ReparseStep
    \/ ReparseReturn
    \/ Snapshot
    \/ SnapshotQuery(0)

\* A caller takes a snapshot, and the map is edited, interpolated and reparsed
\* while the caller queries the snapshot.
SpecSnap == InitSnap /\ [][NextSnap]_vars

\* ------------------------------------------------------------------ claims

\* The layers of an index as (depth, byte range, tree) triples.
LayerTriples(at, ls) ==
    {[depth |-> ls[i].depth, range |-> RangeToOffset(at, ls[i].range), tree |-> ls[i].tree] :
        i \in 1..Len(ls)}

\* The caller has only ever run "edit(s); interpolate; reparse" and the last
\* reparse has returned.
Synced == pc = "idle" /\ phase = "synced"

\* C1. Full-reparse equivalence: after any sequence of "edits; interpolate;
\* reparse" steps the (depth, byte range, tree) triples of the index are those
\* of a fresh SyntaxMap reparsed on the final text.
C1_FullReparseEquivalence ==
    Synced => LayerTriples(atoms, layers) = LayerTriples(atoms, FreshLayers(atoms, registry))

Overlap(l1, l2) ==
    /\ CmpAnchor(l1.range.end, l2.range.start) > 0
    /\ CmpAnchor(l2.range.end, l1.range.start) > 0

\* C2. Same-depth disjointness: in every index state reachable by edit,
\* interpolate and reparse calls, two distinct layers of equal depth do not
\* overlap: one ends at or before the start of the other.
C2_SameDepthDisjoint ==
    pc = "idle" =>
        \A i, j \in 1..Len(layers) :
            i < j /\ layers[i].depth = layers[j].depth => ~Overlap(layers[i], layers[j])

\* A reparse has returned and nothing was called since.
Reparsed == pc = "idle" /\ popped # <<>>

Contains(at, outer, inner) ==
    /\ to_offset(at, outer.range.start) <= to_offset(at, inner.range.start)
    /\ to_offset(at, inner.range.end) <= to_offset(at, outer.range.end)

ContentRanges(at, layer) ==
    LET ms == injection_matches(layer.tree)
        s == to_offset(at, layer.range.start)
    IN {[start |-> s + ms[k].bang, end |-> s + ms[k].close] : k \in 1..Len(ms)}

\* C4. No stale injection layers: after "edit; interpolate; reparse" every
\* layer of depth d + 1 has the range of the content capture of an injection
\* match in the current tree of some layer of depth d.
C4_NoStaleInjectionLayers ==
    Synced =>
        \A i \in 1..Len(layers) :
            layers[i].depth > 0 =>
                \E j \in 1..Len(layers) :
                    /\ layers[j].depth = layers[i].depth - 1
                    /\ RangeToOffset(atoms, layers[i].range) \in ContentRanges(atoms, layers[j])

\* The layers the injection rules ask for over a text, level by level: the
\* children of a set of (depth, byte range, tree) triples are one triple per
\* injection match of each tree, over the bytes of the match's content.
Children(text, level) ==
    UNION {{[depth |-> l.depth + 1,
             range |-> [start |-> l.range.start + mt.bang, end |-> l.range.start + mt.close],
             tree |-> [cells |-> Labels(SubSeq(text, l.range.start + mt.bang + 1,
                                               l.range.start + mt.close))]] :
              mt \in {injection_matches(l.tree)[k] : k \in 1..Len(injection_matches(l.tree))}} :
           l \in level}

RECURSIVE Discover(_, _)
Discover(text, level) ==
    IF level = {} THEN {} ELSE level \cup Discover(text, Children(text, level))

Discovered(text) ==
    Discover(text, {[depth |-> 0, range |-> [start |-> 0, end |-> Len(text)],
                     tree |-> [cells |-> Labels(text)]]})

Depths(ls) == [i \in 1..Len(ls) |-> ls[i].depth]

\* reparse has returned from a call on an empty index with a registry set.
FreshReparsed == Reparsed /\ prior = "fresh" /\ registry

\* C5. Injection discovery from a fresh map: reparse on an empty SyntaxMap with
\* a registry yields exactly the root layer and, level by level, one layer per
\* injection match of each layer's tree, ranged over the match's content; two
\* sibling macros give depths 0/1/1 with disjoint depth-1 ranges, a macro in a
\* macro gives depths 0/1/2 forming a containment chain.
C5_InjectionDiscovery ==
    FreshReparsed =>
        /\ LayerTriples(atoms, layers) = Discovered(Text(atoms))
        /\ Len(layers) = Cardinality(Discovered(Text(atoms)))
        /\ Text(atoms) = <<"!", "(", ")", "!", "(", ")">> =>
              /\ Depths(layers) = <<0, 1, 1>>
              /\ to_offset(atoms, layers[2].range.end) <= to_offset(atoms, layers[3].range.start)
        /\ Text(atoms) = <<"!", "(", "!", "(", ")", ")">> =>
              /\ Depths(layers) = <<0, 1, 2>>
              /\ Contains(atoms, layers[1], layers[2])
              /\ Contains(atoms, layers[2], layers[3])

\* A fresh reparse has found a macro inside a macro.
C5_Witness ==
    /\ FreshReparsed
    /\ \E i \in 1..Len(layers) : layers[i].depth = 2

\* C6. Tree reuse when unchanged: a reparse that directly follows a reparse,
\* with no edit in between, invokes the parser for no step and returns every
\* layer of the index as it was.
C6_TreeReuseWhenUnchanged ==
    [][(pc = "reparse" /\ pc' = "idle" /\ prior = "reparse")
          => (parses' = 0 /\ layers' = layers)]_vars

\* C7. Interpolation preserves the layer count: the only step that changes the
\* number of layers is the return of reparse; interpolate, with or without
\* edits, returns as many layers as it was given, zero-width ones included.
C7_InterpolatePreservesLayerCount ==
    [][Len(layers') # Len(layers) => (pc = "reparse" /\ pc' = "idle")]_vars

\* interpolate has returned after applying edits, and a layer has collapsed to
\* zero width.
C7_Witness ==
    /\ pc = "idle"
    /\ phase = "interpolated"
    /\ \E i \in 1..Len(applied) : applied[i] # <<>>
    /\ \E i \in 1..Len(layers) :
          /\ layers[i].depth > 0
          /\ to_offset(atoms, layers[i].range.start) = to_offset(atoms, layers[i].range.end)

\* The step on which interpolate returns after its loops.
InterpolateReturns == pc = "interp_for" /\ pc' = "idle"

\* The edit's new range and the byte range r share a byte, or the edit is a
\* deletion strictly inside r.
Intersects(e, r) == e.new.start < r.end /\ e.new.end > r.start

TimesApplied(log, e) == Cardinality({k \in 1..Len(log) : log[k].edit = e})

\* C8. interpolate applies edits to every affected layer: each edit since the
\* stored version whose new range intersects a layer's current byte range is
\* applied to that layer's tree exactly once, at every depth.
C8_EveryIntersectingEditAppliedOnce ==
    [][InterpolateReturns =>
          \A i \in 1..Len(layers') :
              \A k \in 1..Len(edits_since(atoms)) :
                  Intersects(edits_since(atoms)[k], RangeToOffset(atoms, layers'[i].range))
                      => TimesApplied(applied'[i], edits_since(atoms)[k]) = 1]_vars

\* interpolate has returned with two edits applied to the root and an edit
\* applied to an injected layer.
C8_Witness ==
    /\ pc = "idle"
    /\ phase = "interpolated"
    /\ Len(applied) = Len(layers)
    /\ \E i, j \in 1..Len(layers) :
          /\ layers[i].depth = 0
          /\ Len(applied[i]) = 2
          /\ layers[j].depth > 0
          /\ applied[j] # <<>>

\* The bytes before the anchor in the text of the stored version.
old_offset(at, a) ==
    IF a = AnchorMax THEN Cardinality({i \in 1..Len(at) : at[i].old})
    ELSE Cardinality({i \in 1..a.g : at[i].old})

\* Byte ranges a and b have no byte in common.
Apart(a, b) == a.end <= b.start \/ a.start >= b.end

\* The layer's bytes lie outside the edit, in the old text and in the new one.
OutsideEdit(at, layer, e) ==
    /\ Apart(e.old, [start |-> old_offset(at, layer.range.start),
                      end |-> old_offset(at, layer.range.end)])
    /\ Apart(e.new, RangeToOffset(at, layer.range))

\* No edit's new range overlaps or touches the layer's byte range.
SeparatedFromEdit(at, layer, e) ==
    LET r == RangeToOffset(at, layer.range)
    IN e.new.end < r.start \/ e.new.start > r.end

AnchorOverlap(a, b) == ~(CmpAnchor(a.end, b.start) < 0) /\ ~(CmpAnchor(a.start, b.end) > 0)

\* C10. layers_for_range(r) returns exactly the layers with a grammar whose
\* anchor range overlaps r, at every depth, in index order; none is skipped
\* because of the summary of a group of layers it is stored in.
C10_LayersForRangeExact ==
    (pc = "idle" /\ result # <<>>) =>
        result[1].layers =
            SelectSeq(layers,
                      LAMBDA layer :
                          /\ grammar(layer.language)
                          /\ AnchorOverlap(layer.range,
                                           [start |-> anchor_before(atoms, result[1].start),
                                            end |-> anchor_after(atoms, result[1].end)]))

\* Two steps are the same injection: the same language over the same bytes.
SameInjection(at, s1, s2) ==
    /\ s1.language = s2.language
    /\ RangeToOffset(at, s1.range) = RangeToOffset(at, s2.range)

\* C11. reparse terminates. The loop is deterministic and a step only queues
\* steps one level deeper, so it runs for ever exactly when some step queues,
\* deeper down, the injection it is itself: no reparse pops the same
\* injection at two depths.
C11_ReparseTerminates ==
    \A i, j \in 1..Len(popped) :
        popped[i].depth < popped[j].depth => ~SameInjection(atoms, popped[i], popped[j])

\* C12. interpolate terminates: every iteration of the inner loop advances
\* the cursor or leaves the loop, whatever the depth of the layer the cursor
\* is at, so at the head of the loop a step that changes the state is at hand.
C12_InterpolateTerminates ==
    pc = "interp_while" => ENABLED <<InterpolateWhile>>_vars

LayerSet(ls) == {ls[i] : i \in 1..Len(ls)}

\* The step reparse pops next is for a language whose grammar is not loaded.
PopsUnloaded == pc = "reparse" /\ queue # <<>> /\ ~grammar(Head(queue).language)

\* C14. Grammar not loaded: the iteration that pops a step whose language has
\* no grammar runs no parser, adds to the new index nothing but old layers it
\* copies on the way, queues no child step, and leaves reparse running; no
\* layer of the index ever has such a language.
C14_UnloadedGrammarSkipped ==
    [][/\ (PopsUnloaded /\ popped' # popped) =>
            /\ parses' = parses
            /\ queue' = Tail(queue)
            /\ LayerSet(out') \subseteq LayerSet(out) \cup LayerSet(layers)
            /\ pc' = "reparse"
       /\ \A i \in 1..Len(layers') : grammar(layers'[i].language)]_vars

\* reparse has returned after skipping an injected step whose language has no
\* grammar, with a layer for every other step.
C14_Witness ==
    /\ Reparsed
    /\ layers # <<>>
    /\ \E k \in 1..Len(popped) : popped[k].depth > 0 /\ ~grammar(popped[k].language)
    /\ Len(layers) = Cardinality({k \in 1..Len(popped) : grammar(popped[k].language)})

\* The first iteration of a reparse that started from an empty index with a
\* registry: the root step, whose language has a grammar, is popped and parsed.
RootParsed ==
    /\ pc = "reparse"
    /\ popped = <<>>
    /\ popped' # <<>>
    /\ prior = "fresh"
    /\ registry
    /\ grammar(Head(queue).language)

\* The injection matches in the tree of a layer that covers the whole buffer,
\* each with the language name it gives.
NamedMatches(at, layer) ==
    LET config == injection_config(layer.language)
        ms == matches(config, layer.tree, [start |-> 0, end |-> Len(layer.tree.cells)])
    IN [k \in 1..Len(ms) |-> [mt |-> ms[k], name |-> language_name(config, at, 0, ms[k])]]

\* C15. Unknown injection language: a match that names a language the
\* registry does not resolve, or no language, gets no step; every other match
\* of the same tree gets its step, for the language it names and over the
\* bytes of its content.
C15_UnknownInjectionSkipped ==
    [][RootParsed =>
          LET nm == NamedMatches(atoms, out'[1])
              known == SelectSeq(nm, LAMBDA m : m.name # <<>> /\ m.name[1] \in Languages)
          IN /\ Len(queue') = Len(known)
             /\ \A k \in 1..Len(known) :
                   /\ queue'[k].language = known[k].name[1]
                   /\ RangeToOffset(atoms, queue'[k].range)
                        = [start |-> known[k].mt.bang, end |-> known[k].mt.close]]_vars

\* The root has just been parsed to a tree with two macros, one naming a
\* registered language and one naming none: one step is queued.
C15_Witness ==
    /\ pc = "reparse"
    /\ Len(popped) = 1
    /\ prior = "fresh"
    /\ registry
    /\ Len(out) = 1
    /\ LET nm == NamedMatches(atoms, out[1])
       IN /\ Len(nm) = 2
          /\ nm[1].name = <<"x">>
          /\ nm[2].name = <<>>
    /\ Len(queue) = 1

\* The index order of two layers: depth ascending, then range.start ascending,
\* then range.end descending.
LayerOrder(a, b) ==
    Then(Cmp(a.depth, b.depth),
         Then(CmpAnchor(a.range.start, b.range.start), CmpAnchor(b.range.end, a.range.end)))

Sorted(ls) == \A i \in 1..(Len(ls) - 1) : LayerOrder(ls[i], ls[i + 1]) <= 0

DueBefore(a, b) ==
    \/ a.depth < b.depth
    \/ /\ a.depth = b.depth
       /\ \/ step_range(a).start < step_range(b).start
          \/ /\ step_range(a).start = step_range(b).start
             /\ step_range(a).end >= step_range(b).end

\* C17. Work-queue order: the step reparse pops next is the pending step of
\* smallest depth, then smallest start, then greatest end; so the steps popped
\* by one reparse have non-decreasing depth and, within a depth,
\* non-decreasing start.
C17_WorkQueueOrder ==
    /\ \A k \in 1..Len(queue) : DueBefore(queue[1], queue[k])
    /\ \A i, j \in 1..Len(popped) :
          i < j =>
              /\ popped[i].depth <= popped[j].depth
              /\ popped[i].depth = popped[j].depth
                    => step_range(popped[i]).start <= step_range(popped[j]).start

\* A step of depth 2 is pending together with a step of depth 1 that was
\* queued before it, and a step of depth 1 has been popped.
C17_Witness ==
    /\ pc = "reparse"
    /\ \E k \in 1..Len(popped) : popped[k].depth = 1
    /\ \E i, j \in 1..Len(queue) : queue[i].depth = 1 /\ queue[j].depth = 2

\* The depths and byte ranges of the layers of an index.
DepthsAndRanges(at, ls) ==
    {[depth |-> ls[i].depth, range |-> RangeToOffset(at, ls[i].range)] : i \in 1..Len(ls)}

\* C18. Reparse idempotence: a reparse that follows a reparse, with no edit
\* in between, returns with the layers (depths and ranges) it started with,
\* the injected ones included.
C18_ReparseIdempotent ==
    [][(pc = "reparse" /\ pc' = "idle" /\ prior = "reparse")
          => DepthsAndRanges(atoms', layers') = DepthsAndRanges(atoms, layers)]_vars

\* The old layers the cursor leaves behind in one iteration of reparse: up to
\* the new position of the cursor, or all that are left when reparse returns.
Passed == cursor..(IF pc' = "idle" THEN Len(layers) ELSE cursor' - 1)

\* The old layer at i is the one the popped step re-parses: the cursor stood on
\* it after the walk and its byte range is the step's.
Replaced(i) ==
    /\ pc' = "reparse"
    /\ i = cursor' - 1
    /\ LET ranges == Head(queue).ranges
       IN RangeToOffset(atoms, layers[i].range)
            = [start |-> IF ranges # <<>> THEN ranges[1].start_byte ELSE 0,
               end |-> IF ranges # <<>> THEN ranges[Len(ranges)].end_byte ELSE BufLen(atoms)]

\* The old layer at i overlaps or touches none of the changed regions known
\* before or after the iteration.
Unaffected(i) ==
    \A r \in LayerSet(changed_regions) \cup LayerSet(changed_regions') :
        ~AnchorOverlap(r.range, layers[i].range)

\* C19. Retention of unaffected layers: every old layer that an iteration of
\* reparse passes, that overlaps no changed region and that no step replaces is
\* in the new index unchanged; at the return of reparse this covers the layers
\* after the last step, those deeper than the last step included.
C19_UnaffectedLayersRetained ==
    [][pc = "reparse"
         => \A i \in Passed :
                (Unaffected(i) /\ ~Replaced(i))
                    => layers[i] \in LayerSet(IF pc' = "idle" THEN layers' ELSE out')]_vars

\* The depth and range the iteration of reparse in progress seeks to: those of
\* the step it pops, or the terminal ones.
Sought ==
    IF queue # <<>> THEN [depth |-> Head(queue).depth, range |-> Head(queue).range]
    ELSE [depth |-> cursor_start(layers, cursor).max_depth,
          range |-> [start |-> AnchorMax, end |-> AnchorMax]]

\* The old layers the iteration of reparse in progress walks one at a time:
\* those between the end of the slice and the place where the walk stops.
Walked ==
    LET target == DepthAndRange(Sought.depth, Sought.range)
        p == IF changed_regions = <<>> THEN AnchorMax ELSE changed_regions[1].range.start
        stop == slice_end(layers, cursor,
                          DepthAndRangeOrMaxPosition(Sought.depth, Sought.range, p))
    IN IF pc = "reparse" /\ TargetCmp(target, cursor_start(layers, cursor)) > 0
       THEN stop..(Walk(layers, [cursor |-> stop, out |-> <<>>, regions |-> changed_regions],
                        Sought.depth, target).cursor - 1)
       ELSE {}

\* The old layer at i and a changed region of its own depth have bytes in common.
OverlapsOwnDepth(i) ==
    \E r \in LayerSet(changed_regions) :
        /\ r.depth = layers[i].depth
        /\ to_offset(atoms, r.range.end) > to_offset(atoms, layers[i].range.start)
        /\ to_offset(atoms, r.range.start) < to_offset(atoms, layers[i].range.end)

\* The old layer at i and a changed region of its own depth overlap as
\* layer_is_changed compares them, by anchors: two ranges that meet at one
\* offset overlap when the first ends with anchor_after and the second starts
\* with anchor_before.
MeetsOwnDepth(i) ==
    \E r \in LayerSet(changed_regions) :
        /\ r.depth = layers[i].depth
        /\ CmpAnchor(r.range.end, layers[i].range.start) > 0
        /\ CmpAnchor(r.range.start, layers[i].range.end) < 0

\* The walk of reparse never reaches a layer: the slice before it ends where
\* the target is at or before cursor.end, which is where the walk breaks.
WalkReachesNoLayer == Walked = {}

\* The old layers the cursor of reparse moves over in the iteration in progress,
\* by the slice and by the walk, the one the step re-parses left out.
MovedOver ==
    LET stop == IF queue # <<>> THEN cursor'
                ELSE reparse_finish(layers, [cursor |-> cursor, out |-> out,
                                             regions |-> changed_regions]).cursor
    IN {i \in cursor..(stop - 1) : ~Replaced(i)}

\* C20. Changed-layer classification: in a reparse that follows interpolate, an
\* old layer that the cursor moves over and that overlaps a changed region of
\* its own depth is classified as changed: it is not copied and leaves a changed
\* region of depth layer.depth + 1 over its range; one that meets no changed
\* region of its own depth is copied unchanged.
C20_ChangedLayerClassification ==
    [][(pc = "reparse" /\ phase = "reparsing")
         => \A i \in MovedOver :
               LET new == LayerSet(IF pc' = "idle" THEN layers' ELSE out')
               IN /\ OverlapsOwnDepth(i)
                       => /\ layers[i] \notin new
                          /\ pc' = "reparse"
                               => [depth |-> layers[i].depth + 1, range |-> layers[i].range]
                                      \in LayerSet(changed_regions')
                  /\ ~MeetsOwnDepth(i) => layers[i] \in new]_vars

\* change_start_anchor: the start of the first changed region, or MAX.
ChangeStart ==
    IF changed_regions = <<>> THEN AnchorMax ELSE changed_regions[1].range.start

\* The iteration of reparse in progress seeks forward: its target is after
\* cursor.start.
Seeks ==
    /\ pc = "reparse"
    /\ TargetCmp(DepthAndRange(Sought.depth, Sought.range), cursor_start(layers, cursor)) > 0

\* Where the bulk slice of the iteration in progress leaves the cursor.
SliceStop ==
    slice_end(layers, cursor,
              DepthAndRangeOrMaxPosition(Sought.depth, Sought.range, ChangeStart))

\* C21. Bulk slice stops at the first changed region: in a reparse that follows
\* interpolate, the slice towards DepthAndRangeOrMaxPosition(d, r, p) leaves the
\* cursor at the earlier of the place of (d, r) and the first layer of depth d
\* whose summary reaches p, so every layer of depth d it copies ends before p.
C21_SliceStopsAtFirstChange ==
    (Seeks /\ phase = "reparsing")
        => /\ SliceStop
                = Min(slice_end(layers, cursor, DepthAndRange(Sought.depth, Sought.range)),
                      slice_end(layers, cursor, DepthAndMaxPosition(Sought.depth, ChangeStart)))
           /\ \A i \in cursor..(SliceStop - 1) :
                  layers[i].depth = Sought.depth
                      => CmpAnchor(layers[i].range.end, ChangeStart) < 0

\* The bytes the step popped next covers: its included ranges' hull, or the
\* whole text for the root step.
StepHull ==
    LET ranges == Head(queue).ranges
    IN [start |-> IF ranges # <<>> THEN ranges[1].start_byte ELSE 0,
        end |-> IF ranges # <<>> THEN ranges[Len(ranges)].end_byte ELSE BufLen(atoms)]

\* cursor.item() after the seek and the walk of the iteration that pops the
\* next step: the index of the old layer, Len(layers) + 1 if there is none.
OldLayerAtCursor ==
    Advance(layers, [cursor |-> cursor, out |-> out, regions |-> changed_regions],
            Head(queue).depth, Head(queue).range).cursor

\* The popped step finds at the cursor an old layer with its byte hull and
\* another language.
OtherLanguageAtCursor ==
    /\ pc = "reparse"
    /\ queue # <<>>
    /\ grammar(Head(queue).language)
    /\ OldLayerAtCursor <= Len(layers)
    /\ RangeToOffset(atoms, layers[OldLayerAtCursor].range) = StepHull
    /\ layers[OldLayerAtCursor].language # Head(queue).language

\* C22. Old-tree reuse requires the same language: a step that finds at the
\* cursor an old layer with its byte hull and another language is parsed fresh,
\* so that, with a registry, its whole extent is recorded as a changed region
\* of the next depth.
C22_ReuseRequiresSameLanguage ==
    [][(OtherLanguageAtCursor /\ registry)
          => \E r \in LayerSet(changed_regions') :
                /\ r.depth = Head(queue).depth + 1
                /\ to_offset(atoms, r.range.end) - to_offset(atoms, r.range.start)
                     = StepHull.end - StepHull.start]_vars

\* ------------------------------------------------- several changed ranges

\* A buffer with two macro invocations, each with a byte to delete, so that a
\* reparse of the root gets one changed range per invocation. The caller keeps
\* the protocol: reparse is called only after interpolate has seen every edit.
DedupText == <<"!", "(", "x", ")", "!", "(", "x", ")">>

InitDedup ==
    /\ atoms = NewAtoms(DedupText)
    /\ undoable = [ins |-> {}, del |-> {}]
    /\ nedits = 0
    /\ registry = FALSE
    /\ layers = <<>>
    /\ pc = "idle"
    /\ cursor = 1
    /\ out = <<>>
    /\ changed_regions = <<>>
    /\ queue = <<>>
    /\ depth = 0
    /\ edits = <<>>
    /\ applied = <<>>
    /\ parses = 0
    /\ popped = <<>>
    /\ result = <<>>
    /\ phase = "edited"
    /\ prior = "none"
    /\ snap = <<>>

NextDedup ==
    \/ SetLanguageRegistry
    \/ \E s \in 0..(Len(DedupText) - 1) : s < BufLen(atoms) /\ buffer_edit(s, s + 1, <<>>)
    \/ InterpolateBegin
    \/ InterpolateFor
    \/ InterpolateWhile
    \/ InterpolateReturn
    \/ \E language \in {"rust", "two"} : edits_since(atoms) = <<>> /\ Reparse(language)
    \/ ReparseStep
    \/ ReparseReturn

SpecDedup == InitDedup /\ [][NextDedup]_vars

\* How many times s occurs in the sequence q.
Count(q, s) == Cardinality({k \in 1..Len(q) : q[k] = s})

\* C23. Injection de-duplication: one iteration of reparse, and so one call of
\* get_injections, adds a step for the same injection to the queue at most
\* once, however many changed ranges find it.
C23_InjectionEnqueuedOnce ==
    [][(pc = "reparse" /\ queue # <<>>)
          => \A s \in LayerSet(queue') : Count(queue', s) <= Count(Tail(queue), s) + 1]_vars

\* The popped step re-parses the old layer at the cursor: it has the step's hull.
Reuses ==
    /\ OldLayerAtCursor <= Len(layers)
    /\ RangeToOffset(atoms, layers[OldLayerAtCursor].range) = StepHull

\* The changed ranges of the parse of the popped step, in the bytes of its tree,
\* given the layer new that the parse pushed.
ParseChanges(new) ==
    IF Reuses THEN changed_ranges(layers[OldLayerAtCursor].tree, new.tree)
    ELSE <<[start |-> 0, end |-> StepHull.end - StepHull.start]>>

\* C24. Changed regions are in buffer coordinates: with a registry, for every
\* changed range a..b of the tree a step parsed, for a layer that starts at buffer
\* byte s, the changed regions hold one of the next depth over the buffer bytes
\* s + a .. s + b.
C24_ChangedRegionsInBufferCoordinates ==
    [][(pc = "reparse" /\ queue # <<>> /\ registry /\ grammar(Head(queue).language))
          => LET changed == ParseChanges(out'[Len(out')])
             IN \A k \in 1..Len(changed) :
                   [depth |-> Head(queue).depth + 1,
                    range |-> [start |-> anchor_before(atoms, StepHull.start + changed[k].start),
                               end |-> anchor_after(atoms, StepHull.start + changed[k].end)]]
                       \in LayerSet(changed_regions')]_vars

\* C25. Version tracking: when interpolate or reparse returns, the stored
\* version is the buffer's, no edit is left to collect; and when reparse takes
\* the trees of the index as previous trees, interpolate has translated every
\* edit onto them: reparse never advances the version over an edit that no
\* interpolate has seen.
C25_VersionTracking ==
    [][/\ (pc # "idle" /\ pc' = "idle") => edits_since(atoms') = <<>>
       /\ (pc = "idle" /\ pc' = "reparse" /\ layers # <<>>) => edits_since(atoms) = <<>>]_vars

\* The tree edits interpolate has applied so far, each with the edit it comes
\* from and the buffer bytes of the layer whose tree it went to.
TreeEdits ==
    IF pc \in {"interp_for", "interp_while"}
    THEN UNION {{[edit |-> applied[i][k].edit, tree_edit |-> applied[i][k].tree_edit,
                  layer |-> RangeToOffset(atoms, out[i].range)] : k \in 1..Len(applied[i])} :
                   i \in 1..Len(applied)}
    ELSE {}

\* The tree edit the edit translation is said to give for an edit and a layer
\* starting at byte s: relative to s inside the layer, clamped to the layer's
\* start with both ends at the edit's end when the edit straddles the start.
TranslatedEdit(edit, s) ==
    IF edit.new.start >= s
    THEN [start_byte |-> edit.new.start - s,
          old_end_byte |-> edit.new.start - s + (edit.old.end - edit.old.start),
          new_end_byte |-> edit.new.end - s]
    ELSE [start_byte |-> 0,
          old_end_byte |-> edit.new.end - s,
          new_end_byte |-> edit.new.end - s]

\* The edit lies fully inside the layer.
Inside(te) == te.edit.new.start >= te.layer.start /\ te.edit.new.end <= te.layer.end

\* The edit straddles the layer's start.
Straddles(te) == te.edit.new.start < te.layer.start /\ te.edit.new.end > te.layer.start

\* C26. Edit translation in interpolate: a tree edit for an edit lying fully
\* inside a layer that starts at byte s has start_byte = new.start - s,
\* old_end_byte = start_byte + (old.end - old.start), new_end_byte = new.end - s;
\* a tree edit for an edit straddling the layer's start has start_byte zero and
\* both old_end_byte and new_end_byte at the edit's end relative to s; every
\* computed offset is non-negative.
C26_EditTranslation ==
    \A te \in TreeEdits :
        /\ (Inside(te) \/ Straddles(te)) => te.tree_edit = TranslatedEdit(te.edit, te.layer.start)
        /\ te.tree_edit.start_byte >= 0
        /\ te.tree_edit.old_end_byte >= 0
        /\ te.tree_edit.new_end_byte >= 0

\* The part of C26 about edits inside a layer, and the signs of the offsets.
C26_InsideEditTranslation ==
    \A te \in TreeEdits :
        /\ Inside(te) => te.tree_edit = TranslatedEdit(te.edit, te.layer.start)
        /\ te.tree_edit.start_byte >= 0
        /\ te.tree_edit.old_end_byte >= 0
        /\ te.tree_edit.new_end_byte >= 0

\* interpolate has applied an edit that straddles the start of a layer.
C26_StraddleApplied == \E te \in TreeEdits : Straddles(te)

\* The step reparse pops next, and the state of its loop.
NextStep == Head(queue)
LoopState == [cursor |-> cursor, out |-> out, regions |-> changed_regions]

\* reparse moves the cursor for the next step: the old layers are sliced and
\* walked, and the changed regions are garbage-collected.
Advances ==
    /\ pc = "reparse"
    /\ queue # <<>>
    /\ TargetCmp(DepthAndRange(NextStep.depth, NextStep.range), cursor_start(layers, cursor)) > 0

\* The changed regions when the walk for the next step has ended, before the
\* garbage collection.
RegionsWalked ==
    LET p == IF changed_regions = <<>> THEN AnchorMax ELSE changed_regions[1].range.start
        stop == slice_end(layers, cursor,
                          DepthAndRangeOrMaxPosition(NextStep.depth, NextStep.range, p))
    IN Walk(layers, [LoopState EXCEPT !.cursor = stop], NextStep.depth,
            DepthAndRange(NextStep.depth, NextStep.range)).regions

\* The changed regions after the garbage collection for the next step.
RegionsKept == Advance(layers, LoopState, NextStep.depth, NextStep.range).regions

\* The region lies at the step's depth or above it and ends at or before the
\* start of the step.
Passed_by(region, step) ==
    region.depth <= step.depth /\ CmpAnchor(region.range.end, step.range.start) <= 0

\* The list is sorted by depth ascending, start ascending, end descending, and
\* holds no entry twice.
StrictlySorted(regions) ==
    \A i \in 1..(Len(regions) - 1) : ChangedRegion_cmp(regions[i], regions[i + 1]) < 0

\* The step's garbage collection as stated: only the regions the step has
\* passed by are dropped.
KeptAsStated ==
    SelectSeq(RegionsWalked, LAMBDA r : ~Passed_by(r, NextStep))

C27_PassedRegionDropped ==
    /\ Advances
    /\ \E i \in 1..Len(RegionsWalked) :
          /\ RegionsWalked[i].depth = NextStep.depth
          /\ Passed_by(RegionsWalked[i], NextStep)

\* The summaries of the layers i..j of ls that add_summary can give: the item
\* summaries combined under every grouping, from the default summary or from
\* the first summary of a group.
RECURSIVE Combined(_, _, _)
Combined(ls, i, j) ==
    LET sums == IF i = j THEN {summary(ls[i])}
                ELSE UNION {{add_summary(a, b) : a \in Combined(ls, i, k),
                                                 b \in Combined(ls, k + 1, j)} :
                              k \in i..(j - 1)}
    IN sums \cup {add_summary(DefaultSummary, sm) : sm \in sums}

\* The least and the greatest of a set of anchors.
MinAnchor(S) == CHOOSE a \in S : \A b \in S : CmpAnchor(a, b) <= 0
MaxAnchor(S) == CHOOSE a \in S : \A b \in S : CmpAnchor(a, b) >= 0

\* What the summary of the layers i..j of ls is to be.
SummaryOf(ls, i, j) ==
    LET deepest == CHOOSE d \in {ls[k].depth : k \in i..j} :
                       \A k \in i..j : ls[k].depth <= d
        at_depth == {k \in i..j : ls[k].depth = deepest}
    IN [max_depth |-> deepest,
        range |-> [start |-> MinAnchor({ls[k].range.start : k \in at_depth}),
                   end |-> MaxAnchor({ls[k].range.end : k \in at_depth})],
        last_layer_range |-> ls[j].range]

\* C28. Summary correctness: for every non-empty run of layers of the index,
\* the item summaries combined with add_summary, under any grouping and from the
\* default summary, give max_depth the greatest depth, range the hull of exactly
\* the layers of that depth, and last_layer_range the range of the last layer.
C28_SummaryCorrect ==
    \A i \in 1..Len(layers) : \A j \in i..Len(layers) :
        Combined(layers, i, j) = {SummaryOf(layers, i, j)}

\* The index holds a shallower layer and two layers of the greatest depth, and
\* the hull of these two is the range of neither.
C28_Witness ==
    /\ Len(layers) >= 3
    /\ \E i \in 1..Len(layers) : \E j \in (i + 1)..Len(layers) :
          LET hull == SummaryOf(layers, 1, Len(layers))
          IN /\ layers[i].depth = hull.max_depth
             /\ layers[j].depth = hull.max_depth
             /\ layers[1].depth < hull.max_depth
             /\ hull.range # layers[i].range
             /\ hull.range # layers[j].range

====
